---- MODULE Spec2Model ----
(***************************************************************************)
(* CareerBot (src/app.py): a Streamlit script over a SQLite database.      *)
(*                                                                         *)
(* The database (tables users and chat_history) is shared by all browser   *)
(* sessions; every session has its own st.session_state (user, chat_open,  *)
(* chat_history) and runs the script in its own thread, one handler at a   *)
(* time.  A handler is one action, except the Send handler, which is cut   *)
(* at the points where another session can interleave: the model call      *)
(* (generate_content) and the statements of save_chat's transaction.       *)
(*                                                                         *)
(* Texts (messages, replies) are sequences of characters so that           *)
(* str.strip() is computed.  The timestamp column is not modelled: no      *)
(* statement of the script reads it.                                       *)
(***************************************************************************)
EXTENDS Integers, Sequences, FiniteSets, TLC

\* ------------------------------------------------------------------ inputs

\* Browser sessions (each has its own st.session_state).
Sessions == {"s1", "s2"}

\* Usernames typed into the forms; they differ only in case.
Usernames == {"alice", "Alice"}

\* Passwords typed into the forms.
Passwords == {"pw123", "pw124"}

\* Texts typed into the chat input: empty, blank, and one with a leading
\* blank.
MsgInputs == {<<>>, <<" ">>, <<" ", "q">>}

\* The msg arguments a direct caller passes: a blank one and two others.
CallMsgs == (MsgInputs \ {<<>>}) \cup {<<"q">>}

\* The text the hosted model returns (resp.text), with trailing blank.
ReplyInputs == {<<"r", " ">>}

\* The most exchanges the store is let to hold when the script runs.
MaxPairs == 2

\* The most save_chat calls a direct caller of DatabaseManager makes.
MaxCalls == 4

\* The user_id arguments a direct caller passes.
UserIds == {1, 2}

\* history[-3:] at src/app.py:186.
HistoryWindow == 3

None == [none |-> TRUE]

NoMessage == "-"

\* ------------------------------------------------------------------- state

VARIABLES
    users,          \* table users: sequence of rows, in id order
    chat_table,     \* table chat_history: committed rows, in id order
    pending,        \* per session: rows inserted by its open transaction
    leaked,         \* a dropped, unclosed connection holds the write lock
    user,           \* st.session_state.user
    chat_open,      \* st.session_state.chat_open
    chat_history,   \* st.session_state.chat_history
    chat_input,     \* st.session_state.chat_input: the text in the chat input
    pc,             \* where the session's Send handler stands
    frame,          \* the Send handler's locals and save_chat's arguments
    ui,             \* the last st.success / st.error / exception shown
    signups,        \* history variable: the sign-ups that returned True
    saved           \* history variable: the save_chat calls that committed

vars == <<users, chat_table, pending, leaked, user, chat_open, chat_history,
          chat_input, pc, frame, ui, signups, saved>>

\* ---------------------------------------------------------------- helpers

IsSpace(c) == c = " "

RECURSIVE LStrip(_)
LStrip(t) ==
    IF t = <<>> THEN <<>>
    ELSE IF IsSpace(Head(t)) THEN LStrip(Tail(t)) ELSE t

RECURSIVE RStrip(_)
RStrip(t) ==
    IF t = <<>> THEN <<>>
    ELSE IF IsSpace(t[Len(t)]) THEN RStrip(SubSeq(t, 1, Len(t) - 1)) ELSE t

\* Mutant: nothing is stripped.
Strip_Identity(t) == t

\* str.strip()
Strip(t) == RStrip(LStrip(t))

\* seq[-n:]
LastN(seq, n) ==
    IF Len(seq) <= n THEN seq ELSE SubSeq(seq, Len(seq) - n + 1, Len(seq))

RECURSIVE SelectRows(_, _)
\* SELECT ... FROM chat_history WHERE user_id=? ORDER BY id ASC
\* (the table is kept in id order).
SelectRows(rows, user_id) ==
    IF rows = <<>> THEN <<>>
    ELSE IF Head(rows).user_id = user_id
         THEN <<Head(rows)>> \o SelectRows(Tail(rows), user_id)
         ELSE SelectRows(Tail(rows), user_id)

\* -------------------------------------------------------- DatabaseManager

hash_password(pwd) == <<"sha256", pwd>>

UserRow(username) ==
    IF \E i \in 1..Len(users) : users[i].username = username
    THEN users[CHOOSE i \in 1..Len(users) : users[i].username = username]
    ELSE None

\* The UNIQUE constraint on users.username: the INSERT raises IntegrityError.
UsernameTaken(username) == UserRow(username) # None

\* Mutant: every row gets the id 1.
NewUserRow_FirstId(username, pwd) ==
    [id |-> 1, username |-> username, password_hash |-> hash_password(pwd)]

\* The row create_user inserts: AUTOINCREMENT id, username, password_hash.
NewUserRow(username, pwd) ==
    [id |-> Len(users) + 1, username |-> username,
     password_hash |-> hash_password(pwd)]

\* Mutant: the password is not compared.
authenticate_user_AnyPassword(username, pwd) ==
    LET row == UserRow(username) IN
    IF row # None
    THEN [id |-> row.id, username |-> row.username]
    ELSE None

authenticate_user(username, pwd) ==
    LET row == UserRow(username) IN
    IF row # None /\ row.password_hash = hash_password(pwd)
    THEN [id |-> row.id, username |-> row.username]
    ELSE None

\* Mutant: the SELECT has no WHERE clause.
get_chat_history_AllRows(user_id) ==
    [i \in 1..Len(chat_table) |->
        [message |-> chat_table[i].message, is_user |-> chat_table[i].is_user]]

get_chat_history(user_id) ==
    LET rows == SelectRows(chat_table, user_id) IN
    [i \in 1..Len(rows) |->
        [message |-> rows[i].message, is_user |-> rows[i].is_user]]

\* No other session is inside a transaction of save_chat (a writer waits
\* for it: it lasts two statements, the busy timeout five seconds).
NoWriter(s) == \A t \in Sessions \ {s} : pending[t] = <<>>

\* The id AUTOINCREMENT gives the next row of chat_history.
NextRowId(s) == Len(chat_table) + Len(pending[s]) + 1

UserMsgRow(s, user_id, msg) ==
    [id |-> NextRowId(s), user_id |-> user_id, message |-> msg, is_user |-> 1]

\* Mutant: the reply is inserted with is_user = 1.
BotMsgRow_AsUser(s, user_id, resp) ==
    [id |-> NextRowId(s), user_id |-> user_id, message |-> resp, is_user |-> 1]

BotMsgRow(s, user_id, resp) ==
    [id |-> NextRowId(s), user_id |-> user_id, message |-> resp, is_user |-> 0]

\* ---------------------------------------------------------- CareerChatbot

Preamble == <<"system", <<"You are a helpful career counsellor.">>>>

RECURSIVE ContextLines(_)
\* The loop body of get_response over the retained entries; stops at the
\* first entry that has no 'response' key (KeyError).
ContextLines(hist) ==
    IF hist = <<>> THEN [ok |-> TRUE, lines |-> <<>>]
    ELSE IF ~ ({"message", "response"} \subseteq DOMAIN Head(hist))
         THEN [ok |-> FALSE, lines |-> <<>>]
         ELSE LET rest == ContextLines(Tail(hist)) IN
              [ok |-> rest.ok,
               lines |-> <<<<"User: ", Head(hist).message>>,
                           <<"Assistant: ", Head(hist).response>>>>
                         \o rest.lines]

\* The context get_response passes to generate_content, or the KeyError.
BuildContext(message, history) ==
    LET body == ContextLines(LastN(history, HistoryWindow)) IN
    IF body.ok
    THEN [ok |-> TRUE,
          context |-> <<Preamble>> \o body.lines
                      \o <<<<"User: ", message>>, <<"Assistant:", <<>>>>>>]
    ELSE [ok |-> FALSE, context |-> <<>>]

\* ------------------------------------------------------------ the script

\* The display loop of the chat popup reads h["is_user"] of every entry.
RenderOK(s) ==
    \A i \in 1..Len(chat_history[s]) : "is_user" \in DOMAIN chat_history[s][i]

NoFrame == [user_id |-> 0, msg |-> <<>>, context |-> <<>>, resp |-> <<>>]

Idle(s) == pc[s] = "idle"

Init ==
    /\ users = <<>>
    /\ chat_table = <<>>
    /\ pending = [s \in Sessions |-> <<>>]
    /\ leaked = FALSE
    /\ user = [s \in Sessions |-> None]
    /\ chat_open = [s \in Sessions |-> FALSE]
    /\ chat_history = [s \in Sessions |-> <<>>]
    /\ chat_input = [s \in Sessions |-> <<>>]
    /\ pc = [s \in Sessions |-> "idle"]
    /\ frame = [s \in Sessions |-> NoFrame]
    /\ ui = [s \in Sessions |-> NoMessage]
    /\ signups = {}
    /\ saved = <<>>

\* Mutant: a successful sign-up logs the session in.
SignUp_LogsIn(s, u, p) ==
    /\ Idle(s)
    /\ user[s] = None
    /\ NoWriter(s)
    /\ IF leaked
       THEN /\ ui' = [ui EXCEPT ![s] = "Username exists"]
            /\ UNCHANGED <<users, signups, leaked, user>>
       ELSE IF UsernameTaken(u)
       THEN /\ ui' = [ui EXCEPT ![s] = "Username exists"]
            /\ leaked' = TRUE
            /\ UNCHANGED <<users, signups, user>>
       ELSE /\ users' = Append(users, NewUserRow(u, p))
            /\ signups' = signups \cup
                  {[username |-> u, pwd |-> p, id |-> Len(users) + 1]}
            /\ ui' = [ui EXCEPT ![s] = "Account created! Please login."]
            /\ user' = [user EXCEPT ![s] =
                  [id |-> Len(users) + 1, username |-> u]]
            /\ UNCHANGED leaked
    /\ UNCHANGED <<chat_table, pending, chat_open, chat_history,
                   chat_input, pc, frame, saved>>

\* create_user and the message shown for its result.  A failed INSERT leaves
\* the connection unclosed with its transaction open: it keeps the write
\* lock until the garbage collector closes it, and meanwhile every INSERT
\* of another connection times out ("database is locked"), which the bare
\* except turns into False as well.
SignUp(s, u, p) ==
    /\ Idle(s)
    /\ user[s] = None
    /\ NoWriter(s)
    /\ IF leaked
       THEN /\ ui' = [ui EXCEPT ![s] = "Username exists"]
            /\ UNCHANGED <<users, signups, leaked>>
       ELSE IF UsernameTaken(u)
       THEN /\ ui' = [ui EXCEPT ![s] = "Username exists"]
            /\ leaked' = TRUE
            /\ UNCHANGED <<users, signups>>
       ELSE /\ users' = Append(users, NewUserRow(u, p))
            /\ signups' = signups \cup
                  {[username |-> u, pwd |-> p, id |-> Len(users) + 1]}
            /\ ui' = [ui EXCEPT ![s] = "Account created! Please login."]
            /\ UNCHANGED leaked
    /\ UNCHANGED <<chat_table, pending, user, chat_open, chat_history,
                   chat_input, pc, frame, saved>>

\* The garbage collector closes the dropped connection: its transaction is
\* rolled back and the write lock released.
Collect ==
    /\ leaked
    /\ leaked' = FALSE
    /\ UNCHANGED <<users, chat_table, pending, user, chat_open, chat_history,
                   chat_input, pc, frame, ui, signups, saved>>

\* Mutant: an unregistered username gets a message of its own.
Login_TellsUnknownUser(s, u, p) ==
    /\ Idle(s)
    /\ user[s] = None
    /\ LET account == authenticate_user(u, p) IN
       IF account # None
       THEN /\ user' = [user EXCEPT ![s] = account]
            /\ chat_history' =
                  [chat_history EXCEPT ![s] = get_chat_history(account.id)]
            /\ ui' = [ui EXCEPT ![s] = "Logged in!"]
       ELSE /\ ui' = [ui EXCEPT ![s] =
                      IF UserRow(u) = None THEN "No such user"
                      ELSE "Invalid login"]
            /\ UNCHANGED <<user, chat_history>>
    /\ UNCHANGED <<leaked, users, chat_table, pending, chat_open, pc, frame,
                   signups, saved, chat_input>>

Login(s, u, p) ==
    /\ Idle(s)
    /\ user[s] = None
    /\ LET account == authenticate_user(u, p) IN
       IF account # None
       THEN /\ user' = [user EXCEPT ![s] = account]
            /\ chat_history' =
                  [chat_history EXCEPT ![s] = get_chat_history(account.id)]
            /\ ui' = [ui EXCEPT ![s] = "Logged in!"]
       ELSE /\ ui' = [ui EXCEPT ![s] = "Invalid login"]
            /\ UNCHANGED <<user, chat_history>>
    /\ UNCHANGED <<leaked, users, chat_table, pending, chat_open, pc, frame,
                   signups, saved, chat_input>>

\* Mutant: the session's history is left as it is.
Logout_KeepsHistory(s) ==
    /\ Idle(s)
    /\ user[s] # None
    /\ user' = [user EXCEPT ![s] = None]
    /\ ui' = [ui EXCEPT ![s] = "Logged out successfully!"]
    /\ chat_input' = [chat_input EXCEPT ![s] = <<>>]
    /\ UNCHANGED <<leaked, users, chat_table, pending, chat_open, pc, frame,
                   signups, saved, chat_history>>

Logout(s) ==
    /\ Idle(s)
    /\ user[s] # None
    /\ user' = [user EXCEPT ![s] = None]
    /\ chat_history' = [chat_history EXCEPT ![s] = <<>>]
    /\ ui' = [ui EXCEPT ![s] = "Logged out successfully!"]
    /\ chat_input' = [chat_input EXCEPT ![s] = <<>>]
    /\ UNCHANGED <<leaked, users, chat_table, pending, chat_open, pc, frame,
                   signups, saved>>

ToggleChat(s) ==
    /\ Idle(s)
    /\ user[s] # None
    /\ chat_open' = [chat_open EXCEPT ![s] = ~ chat_open[s]]
    /\ ui' = [ui EXCEPT ![s] =
                IF chat_open'[s] /\ ~ RenderOK(s)
                THEN "KeyError: 'is_user'" ELSE NoMessage]
    /\ chat_input' = [chat_input EXCEPT ![s] = <<>>]
    /\ UNCHANGED <<leaked, users, chat_table, pending, user, chat_history, pc,
                   frame, signups, saved>>

\* The Send button exists only when the popup was rendered down to it.
SendRendered(s) ==
    /\ Idle(s)
    /\ user[s] # None
    /\ chat_open[s]
    /\ RenderOK(s)

\* Fewer exchanges than MaxPairs are stored or on their way to the store.
RoomForPair ==
    Len(chat_table) + 2 * Cardinality({t \in Sessions : pc[t] # "idle"})
        < 2 * MaxPairs

\* Send clicked with msg in the input: lines 270-272 up to the model call.
SendClick(s, msg) ==
    /\ SendRendered(s)
    /\ RoomForPair
    /\ IF Strip(msg) = <<>>
       THEN /\ ui' = [ui EXCEPT ![s] = NoMessage]
            /\ UNCHANGED <<pc, frame>>
       ELSE LET built == BuildContext(msg, chat_history[s]) IN
            IF built.ok
            THEN /\ pc' = [pc EXCEPT ![s] = "generate"]
                 /\ frame' = [frame EXCEPT ![s] =
                       [user_id |-> 0, msg |-> msg,
                        context |-> built.context, resp |-> <<>>]]
                 /\ ui' = [ui EXCEPT ![s] = NoMessage]
            ELSE /\ ui' = [ui EXCEPT ![s] = "KeyError: 'response'"]
                 /\ UNCHANGED <<pc, frame>>
    /\ chat_input' = [chat_input EXCEPT ![s] = msg]
    /\ UNCHANGED <<leaked, users, chat_table, pending, user, chat_open,
                   chat_history, signups, saved>>

\* Mutant: save_chat is passed the id of the first account.
ModelReply_FirstAccount(s, text) ==
    /\ pc[s] = "generate"
    /\ LET resp == Strip(text) IN
       /\ frame' = [frame EXCEPT ![s].resp = resp,
                                 ![s].user_id = users[1].id]
       /\ chat_history' = [chat_history EXCEPT ![s] =
             Append(@, [message |-> frame[s].msg, response |-> resp])]
    /\ pc' = [pc EXCEPT ![s] = "save_chat"]
    /\ UNCHANGED <<leaked, users, chat_table, pending, user, chat_open, ui,
                   signups, saved, chat_input>>

\* generate_content returned text: lines 190 and 273.
ModelReply(s, text) ==
    /\ pc[s] = "generate"
    /\ LET resp == Strip(text) IN
       /\ frame' = [frame EXCEPT ![s].resp = resp,
                                 ![s].user_id = user[s].id]
       /\ chat_history' = [chat_history EXCEPT ![s] =
             Append(@, [message |-> frame[s].msg, response |-> resp])]
    /\ pc' = [pc EXCEPT ![s] = "save_chat"]
    /\ UNCHANGED <<leaked, users, chat_table, pending, user, chat_open, ui,
                   signups, saved, chat_input>>

\* Mutant: the message is kept in the session's history with no reply.
ModelFail_KeepsMessage(s) ==
    /\ pc[s] = "generate"
    /\ pc' = [pc EXCEPT ![s] = "idle"]
    /\ frame' = [frame EXCEPT ![s] = NoFrame]
    /\ chat_history' = [chat_history EXCEPT ![s] =
          Append(@, [message |-> frame[s].msg, response |-> <<>>])]
    /\ ui' = [ui EXCEPT ![s] = "ModelError"]
    /\ UNCHANGED <<leaked, users, chat_table, pending, user, chat_open,
                   signups, saved, chat_input>>

\* generate_content (or resp.text) raised: the handler ends there.
ModelFail(s) ==
    /\ pc[s] = "generate"
    /\ pc' = [pc EXCEPT ![s] = "idle"]
    /\ frame' = [frame EXCEPT ![s] = NoFrame]
    /\ ui' = [ui EXCEPT ![s] = "ModelError"]
    /\ UNCHANGED <<leaked, users, chat_table, pending, user, chat_open,
                   chat_history, signups, saved, chat_input>>

\* Mutant: the connection is in autocommit mode, the row is committed at once.
SaveInsertUser_Autocommit(s) ==
    /\ pc[s] = "save_chat"
    /\ NoWriter(s)
    /\ ~ leaked
    /\ chat_table' = Append(chat_table,
          UserMsgRow(s, frame[s].user_id, frame[s].msg))
    /\ pc' = [pc EXCEPT ![s] = "insert_bot"]
    /\ UNCHANGED <<leaked, users, pending, user, chat_open, chat_history,
                   frame, ui, signups, saved, chat_input>>

\* save_chat, first INSERT: opens the transaction, takes the write lock.
SaveInsertUser(s) ==
    /\ pc[s] = "save_chat"
    /\ NoWriter(s)
    /\ ~ leaked
    /\ pending' = [pending EXCEPT ![s] =
          <<UserMsgRow(s, frame[s].user_id, frame[s].msg)>>]
    /\ pc' = [pc EXCEPT ![s] = "insert_bot"]
    /\ UNCHANGED <<leaked, users, chat_table, user, chat_open, chat_history,
                   frame, ui, signups, saved, chat_input>>

\* save_chat, second INSERT.
SaveInsertBot(s) ==
    /\ pc[s] = "insert_bot"
    /\ pending' = [pending EXCEPT ![s] =
          Append(@, BotMsgRow(s, frame[s].user_id, frame[s].resp))]
    /\ pc' = [pc EXCEPT ![s] = "commit"]
    /\ UNCHANGED <<leaked, users, chat_table, user, chat_open, chat_history,
                   frame, ui, signups, saved, chat_input>>

\* Mutant: the committed rows are put before the rows of the table.
SaveCommit_Prepends(s) ==
    /\ pc[s] = "commit"
    /\ chat_table' = pending[s] \o chat_table
    /\ pending' = [pending EXCEPT ![s] = <<>>]
    /\ saved' = Append(saved, [user_id |-> frame[s].user_id,
                               msg |-> frame[s].msg, resp |-> frame[s].resp])
    /\ pc' = [pc EXCEPT ![s] = "idle"]
    /\ frame' = [frame EXCEPT ![s] = NoFrame]
    /\ ui' = [ui EXCEPT ![s] =
                IF RenderOK(s) THEN NoMessage ELSE "KeyError: 'is_user'"]
    /\ chat_input' = [chat_input EXCEPT ![s] =
          IF user[s] # None /\ chat_open[s] /\ RenderOK(s) THEN @ ELSE <<>>]
    /\ UNCHANGED <<leaked, users, user, chat_open, chat_history, signups>>

\* save_chat, conn.commit(); then st.rerun().
SaveCommit(s) ==
    /\ pc[s] = "commit"
    /\ chat_table' = chat_table \o pending[s]
    /\ pending' = [pending EXCEPT ![s] = <<>>]
    /\ saved' = Append(saved, [user_id |-> frame[s].user_id,
                               msg |-> frame[s].msg, resp |-> frame[s].resp])
    /\ pc' = [pc EXCEPT ![s] = "idle"]
    /\ frame' = [frame EXCEPT ![s] = NoFrame]
    /\ ui' = [ui EXCEPT ![s] =
                IF RenderOK(s) THEN NoMessage ELSE "KeyError: 'is_user'"]
    /\ chat_input' = [chat_input EXCEPT ![s] =
          IF user[s] # None /\ chat_open[s] /\ RenderOK(s) THEN @ ELSE <<>>]
    /\ UNCHANGED <<leaked, users, user, chat_open, chat_history, signups>>

\* Mutant: the rows inserted so far are committed.
SaveFail_CommitsPartial(s) ==
    /\ pc[s] \in {"save_chat", "insert_bot", "commit"}
    /\ chat_table' = chat_table \o pending[s]
    /\ pending' = [pending EXCEPT ![s] = <<>>]
    /\ pc' = [pc EXCEPT ![s] = "idle"]
    /\ frame' = [frame EXCEPT ![s] = NoFrame]
    /\ ui' = [ui EXCEPT ![s] = "OperationalError"]
    /\ UNCHANGED <<leaked, users, user, chat_open, chat_history, signups,
                   saved, chat_input>>

\* A statement of save_chat raised (sqlite3.OperationalError): the
\* connection is dropped unclosed, its rows are never committed, and its
\* transaction, if it had begun, keeps the write lock until collected.
SaveFail(s) ==
    /\ pc[s] \in {"save_chat", "insert_bot", "commit"}
    /\ pending' = [pending EXCEPT ![s] = <<>>]
    /\ leaked' = (leaked \/ pending[s] # <<>>)
    /\ pc' = [pc EXCEPT ![s] = "idle"]
    /\ frame' = [frame EXCEPT ![s] = NoFrame]
    /\ ui' = [ui EXCEPT ![s] = "OperationalError"]
    /\ UNCHANGED <<users, chat_table, user, chat_open, chat_history, signups,
                   saved, chat_input>>

SessionNext ==
    \E s \in Sessions :
        \/ \E u \in Usernames, p \in Passwords : SignUp(s, u, p)
        \/ \E u \in Usernames, p \in Passwords : Login(s, u, p)
        \/ Logout(s)
        \/ ToggleChat(s)
        \/ \E msg \in MsgInputs : SendClick(s, msg)
        \/ \E text \in ReplyInputs : ModelReply(s, text)
        \/ ModelFail(s)
        \/ SaveInsertUser(s)
        \/ SaveInsertBot(s)
        \/ SaveCommit(s)
        \/ SaveFail(s)

Next == SessionNext \/ Collect

Spec == Init /\ [][Next]_vars

\* ------------------------------------------- DatabaseManager, called directly

\* A caller (a thread with its own connection per call) starts
\* save_chat(user_id, msg, resp); the statements of save_chat follow as the
\* Save actions above.
CallSaveChat(s, user_id, msg, resp) ==
    /\ Idle(s)
    /\ Len(chat_table) + 2 * Cardinality({t \in Sessions : pc[t] # "idle"})
          < 2 * MaxCalls
    /\ frame' = [frame EXCEPT ![s] =
          [user_id |-> user_id, msg |-> msg, context |-> <<>>, resp |-> resp]]
    /\ pc' = [pc EXCEPT ![s] = "save_chat"]
    /\ UNCHANGED <<leaked, users, chat_table, pending, user, chat_open,
                   chat_history, ui, signups, saved, chat_input>>

CallerNext ==
    \E s \in Sessions :
        \/ \E user_id \in UserIds, msg \in CallMsgs, text \in ReplyInputs :
              CallSaveChat(s, user_id, msg, Strip(text))
        \/ SaveInsertUser(s)
        \/ SaveInsertBot(s)
        \/ SaveCommit(s)
        \/ SaveFail(s)

NextApi == CallerNext \/ Collect

SpecApi == Init /\ [][NextApi]_vars

\* ------------------------------------------------------------------ claims

RECURSIVE SavedFor(_, _)
\* The committed save_chat calls made for user_id, in commit order.
SavedFor(calls, user_id) ==
    IF calls = <<>> THEN <<>>
    ELSE IF Head(calls).user_id = user_id
         THEN <<Head(calls)>> \o SavedFor(Tail(calls), user_id)
         ELSE SavedFor(Tail(calls), user_id)

\* C1: after N committed save_chat calls for an account, get_chat_history
\* returns exactly 2N records for it: the k-th call's message as a user
\* record followed by its reply as an assistant record, in the order of the
\* calls; with no call it returns the empty sequence.
C1_HistoryIsAppendedPairs ==
    \A a \in UserIds :
        LET h == get_chat_history(a)
            calls == SavedFor(saved, a)
        IN /\ Len(h) = 2 * Len(calls)
           /\ \A k \in 1..Len(calls) :
                 /\ h[2 * k - 1] = [message |-> calls[k].msg, is_user |-> 1]
                 /\ h[2 * k] = [message |-> calls[k].resp, is_user |-> 0]

\* Three exchanges of one account, the first two with different messages and
\* another account's exchange committed between them.
C1_Witness ==
    /\ Len(saved) = 4
    /\ saved[1].user_id = 1 /\ saved[2].user_id = 2
    /\ saved[3].user_id = 1 /\ saved[4].user_id = 1
    /\ saved[1].msg = <<"q">> /\ saved[3].msg = <<" ", "q">>
    /\ Len(get_chat_history(1)) = 6
    /\ \A s \in Sessions : Idle(s)

\* A text that is empty or holds only blanks.
IsBlank(t) == \A i \in 1..Len(t) : t[i] = " "

\* The session can send msg: the Send button is rendered and get_response
\* builds the prompt and calls the model.
CanSend(s, msg) ==
    /\ SendRendered(s)
    /\ BuildContext(msg, chat_history[s]).ok

\* C2: a logged-in session with the chat open can send every non-empty
\* message, also when its account already has stored exchanges (the second
\* and later sends, in the same session or after a logout and a login): the
\* Send button is rendered and the prompt is built and passed to the model.
C2_LaterSendsComplete ==
    \A s \in Sessions :
        ( /\ Idle(s) /\ user[s] # None /\ chat_open[s]
          /\ Len(get_chat_history(user[s].id)) >= 2 )
        => \A msg \in MsgInputs : ~ IsBlank(msg) => CanSend(s, msg)

\* No other session is logged in to the session's account.
SoleSession(s) == \A t \in Sessions \ {s} : user[t] # user[s]

\* C3: with one session per account, the session's history equals, record
\* for record, what get_chat_history returns for its account right after a
\* login and right after every send that was committed.
C3_SessionHistoryMirrorsStore ==
    [][\A s \in Sessions, a \in UserIds :
          ( /\ \/ SaveCommit(s)
               \/ \E u \in Usernames, p \in Passwords : Login(s, u, p)
            /\ user'[s] # None
            /\ user'[s].id = a
            /\ SoleSession(s)' )
          => chat_history'[s] = get_chat_history(a)']_vars

RECURSIVE PairsOf(_)
\* The exchanges of a history: an entry with a response is one exchange, a
\* user record and the assistant record after it are one exchange.
PairsOf(history) ==
    IF history = <<>> THEN <<>>
    ELSE IF "response" \in DOMAIN Head(history)
         THEN <<<<Head(history).message, Head(history).response>>>>
              \o PairsOf(Tail(history))
         ELSE IF Len(history) = 1 THEN <<>>
              ELSE <<<<history[1].message, history[2].message>>>>
                   \o PairsOf(SubSeq(history, 3, Len(history)))

\* The prompt of the claim: the preamble, the last three exchanges in order,
\* the new message and the open "Assistant:" marker.
ExpectedPrompt(history, msg) ==
    LET pairs == PairsOf(history)
        kept == IF Len(pairs) <= 3 THEN pairs
                ELSE SubSeq(pairs, Len(pairs) - 2, Len(pairs))
        line(k) == IF k % 2 = 1 THEN <<"User: ", kept[(k + 1) \div 2][1]>>
                   ELSE <<"Assistant: ", kept[k \div 2][2]>>
    IN <<Preamble>> \o [k \in 1..(2 * Len(kept)) |-> line(k)]
       \o <<<<"User: ", msg>>, <<"Assistant:", <<>>>>>>

\* C4: for every history the Send handler can pass (the Send button is
\* rendered) and every non-empty message, get_response builds the prompt of
\* the claim.
C4_PromptHoldsLastThreeExchanges ==
    \A s \in Sessions :
        SendRendered(s) =>
            \A msg \in MsgInputs :
                ~ IsBlank(msg) =>
                    /\ BuildContext(msg, chat_history[s]).ok
                    /\ BuildContext(msg, chat_history[s]).context =
                          ExpectedPrompt(chat_history[s], msg)

\* C5: every (username, password) whose sign-up succeeded logs in, in every
\* later state, to the id the sign-up gave it, and no other password logs in
\* to that username.
C5_SignedUpCredentialsLogIn ==
    \A r \in signups :
        \A p \in Passwords :
            authenticate_user(r.username, p) =
                IF p = r.pwd THEN [id |-> r.id, username |-> r.username]
                ELSE None

\* Both usernames signed up, one session logged in with the right password
\* while the other was refused, and an exchange was stored since.
C5_Witness ==
    /\ Cardinality(signups) = 2
    /\ Len(chat_table) = 2
    /\ \E s, t \in Sessions :
          /\ user[s] # None /\ user[s].id = 2
          /\ ui[t] = "Invalid login"

\* The ids of the rows of a table.
Ids(rows) == {rows[i].id : i \in 1..Len(rows)}

\* C6: a sign-up with a username that some row of users already has (exact
\* match) shows "Username exists" and leaves the table as it was; a sign-up
\* with a new username appends one row with that username, the digest of the
\* password and an id no row had; so no two rows ever share a username or an
\* id, whichever way the sessions' sign-ups interleave.
C6_DuplicateSignUpRejected ==
    /\ [][\A s \in Sessions, u \in Usernames, p \in Passwords :
            SignUp(s, u, p) =>
                IF \E i \in 1..Len(users) : users[i].username = u
                THEN /\ users' = users
                     /\ ui'[s] = "Username exists"
                ELSE /\ Len(users') = Len(users) + 1
                     /\ SubSeq(users', 1, Len(users)) = users
                     /\ users'[Len(users')].username = u
                     /\ users'[Len(users')].password_hash = <<"sha256", p>>
                     /\ users'[Len(users')].id \notin Ids(users)
                     /\ ui'[s] = "Account created! Please login."]_vars
    /\ [](\A i, j \in 1..Len(users) :
            i # j => /\ users[i].username # users[j].username
                     /\ users[i].id # users[j].id)

RECURSIVE RecordsOf(_)
\* The records of a sequence of exchanges: message, then reply, of each.
RecordsOf(calls) ==
    IF calls = <<>> THEN <<>>
    ELSE <<[message |-> Head(calls).msg, is_user |-> 1],
           [message |-> Head(calls).resp, is_user |-> 0]>>
         \o RecordsOf(Tail(calls))

\* The user_id argument of the save_chat call that created the row with
\* this id (each committed call created two rows).
CreatedFor(id) == saved[(id + 1) \div 2].user_id

\* C7: every row get_chat_history selects for an account was created by a
\* save_chat call for that account, and a login loads into the session the
\* history of exactly the account it authenticated.
C7_HistoryIsolated ==
    /\ [](\A a \in UserIds :
            LET rows == SelectRows(chat_table, a)
                h == get_chat_history(a)
            IN /\ Len(h) = Len(rows)
               /\ \A i \in 1..Len(rows) :
                     /\ CreatedFor(rows[i].id) = a
                     /\ h[i].message = rows[i].message)
    /\ [][\A s \in Sessions, u \in Usernames, p \in Passwords :
            (user[s] = None /\ user'[s] # None /\ Login(s, u, p)) =>
                /\ user'[s].username = u
                /\ \E i \in 1..Len(users) :
                      /\ users[i].username = u
                      /\ users[i].id = user'[s].id
                /\ chat_history'[s] =
                      RecordsOf(SavedFor(saved, user'[s].id))]_vars

\* Each account has a stored exchange, and a session has logged in to the
\* second account and holds its two records.
C7_Witness ==
    /\ Len(saved) = 2
    /\ saved[1].user_id = 1 /\ saved[2].user_id = 2
    /\ \E s \in Sessions :
          /\ user[s] # None /\ user[s].id = 2
          /\ ui[s] = "Logged in!"
          /\ Len(chat_history[s]) = 2

\* C8: in every state the committed rows of each account, in id order,
\* alternate user, assistant, starting with a user row, and each assistant
\* row directly follows its user row in the table.
C8_PairsAlternate ==
    \A a \in UserIds :
        LET rows == SelectRows(chat_table, a) IN
        /\ Len(rows) % 2 = 0
        /\ \A i \in 1..Len(rows) :
              /\ rows[i].is_user = (IF i % 2 = 1 THEN 1 ELSE 0)
              /\ i % 2 = 0 => rows[i].id = rows[i - 1].id + 1
              /\ i > 1 => rows[i].id > rows[i - 1].id

\* Two sessions of the same account sent at the same time: one has committed
\* its pair while the other, whose transaction failed, is back idle.
C8_Witness ==
    /\ user["s1"] # None /\ user["s1"] = user["s2"]
    /\ Len(chat_table) = 2
    /\ ui["s1"] = "OperationalError"
    /\ Len(chat_history["s2"]) = 1 /\ Idle("s2")

\* C9: when the model call of a send fails, the store (committed and
\* uncommitted rows), the session's history and its authenticated user are
\* as they were, and the session can send again; and a session has inserted
\* rows only for a message whose reply it has received and recorded.
C9_ModelFailureChangesNothing ==
    /\ [][\A s \in Sessions :
            (pc[s] = "generate" /\ pc'[s] = "idle" /\ ModelFail(s)) =>
                /\ chat_table' = chat_table
                /\ pending' = pending
                /\ saved' = saved
                /\ chat_history'[s] = chat_history[s]
                /\ user'[s] = user[s]
                /\ user'[s] # None
                /\ ui'[s] = "ModelError"
                /\ \A msg \in MsgInputs :
                      ~ IsBlank(msg) => CanSend(s, msg)']_vars
    /\ [](\A s \in Sessions :
            /\ pc[s] = "generate" =>
                  /\ pending[s] = <<>>
                  /\ \A i \in 1..Len(chat_history[s]) :
                        chat_history[s][i].message # frame[s].msg
            /\ pending[s] # <<>> =>
                  /\ pc[s] \in {"insert_bot", "commit"}
                  /\ chat_history[s][Len(chat_history[s])] =
                        [message |-> frame[s].msg, response |-> frame[s].resp]
                  /\ pending[s][1].message = frame[s].msg)

\* The model call of a session failed while the other session's transaction
\* was open; the failed session stored nothing and holds no history.
C9_Witness ==
    \E s, t \in Sessions :
        /\ ui[s] = "ModelError" /\ Idle(s)
        /\ user[s] # None /\ chat_history[s] = <<>>
        /\ ~ IsBlank(chat_input[s])
        /\ pc[t] = "commit"
        /\ chat_table = <<>>

C11_NoPartialPair ==
    /\ [][chat_table' # chat_table =>
            \E s \in Sessions :
                /\ pc[s] = "commit" /\ pc'[s] = "idle"
                /\ Len(pending[s]) = 2
                /\ pending[s][1].is_user = 1 /\ pending[s][2].is_user = 0
                /\ pending[s][1].user_id = pending[s][2].user_id
                /\ pending[s][1].id = Len(chat_table) + 1
                /\ pending[s][2].id = Len(chat_table) + 2
                /\ chat_table' = chat_table \o pending[s]
                /\ pending'[s] = <<>>]_vars
    /\ [][\A s \in Sessions :
            (pc[s] # "idle" /\ pc'[s] = "idle" /\ SaveFail(s)) =>
                /\ chat_table' = chat_table
                /\ pending'[s] = <<>>
                /\ \A a \in UserIds :
                      get_chat_history(a)' = get_chat_history(a)]_vars
    /\ [](\A s \in Sessions :
            /\ pending[s] # <<>> =>
                  /\ pc[s] \in {"insert_bot", "commit"}
                  /\ Len(pending[s]) = (IF pc[s] = "insert_bot" THEN 1 ELSE 2)
                  /\ Ids(pending[s]) \cap Ids(chat_table) = {}
            /\ \A a \in UserIds :
                  get_chat_history(a) = RecordsOf(SavedFor(saved, a)))

\* A call for an account that already has a committed pair stands between
\* its two INSERTs, after another call failed: a reader of the account sees
\* the one committed pair only.
C11_Witness ==
    \E s, t \in Sessions :
        /\ pc[s] = "insert_bot" /\ Len(pending[s]) = 1
        /\ frame[s].user_id = 1
        /\ Len(saved) = 1 /\ saved[1].user_id = 1
        /\ frame[s].msg # saved[1].msg
        /\ Len(get_chat_history(1)) = 2
        /\ Idle(t) /\ ui[t] = "OperationalError"

\* C12: when no handler of the session is running, every exchange in the
\* session's history is in the store: a save_chat call for the session's
\* account with that message and reply has committed.
C12_HistoryHoldsOnlyStoredExchanges ==
    \A s \in Sessions :
        (Idle(s) /\ user[s] # None) =>
            \A i \in 1..Len(chat_history[s]) :
                "response" \in DOMAIN chat_history[s][i] =>
                    \E k \in 1..Len(saved) :
                        saved[k] = [user_id |-> user[s].id,
                                    msg |-> chat_history[s][i].message,
                                    resp |-> chat_history[s][i].response]

\* C13: authenticate_user returns None both for a username no row has and
\* for a registered username with another password than the stored one, and
\* a login that fails shows "Invalid login" and changes nothing else: the
\* state after it is the same whatever the username and password were.
C13_FailedLoginsAlike ==
    /\ [](\A u \in Usernames, p \in Passwords :
            ( \/ UserRow(u) = None
              \/ UserRow(u).password_hash # hash_password(p) )
            => authenticate_user(u, p) = None)
    /\ [][\A s \in Sessions, u \in Usernames, p \in Passwords :
            (user[s] = None /\ user'[s] = None /\ Login(s, u, p)) =>
                /\ ui' = [ui EXCEPT ![s] = "Invalid login"]
                /\ UNCHANGED <<users, chat_table, pending, leaked, user,
                               chat_open, chat_history, chat_input, pc,
                               frame, signups, saved>>]_vars

\* Only one session has ever acted: it registered both usernames, was
\* logged in with the chat open, logged out, and its last login, with the
\* wrong password of a registered username, was refused.
C13_Witness ==
    \E s, t \in Sessions :
        /\ user[t] = None /\ ui[t] = NoMessage
        /\ Cardinality(signups) = 2
        /\ user[s] = None /\ chat_open[s]
        /\ ui[s] = "Invalid login"

\* C14: a session whose Send handler is running is logged in to a registered
\* account, and save_chat's user_id and the user_id of every row it inserts
\* are that account's id; its commit appends two rows to that account's
\* stored history and leaves every other account's stored history as it was.
C14_WritesCarryAuthenticatedId ==
    /\ [](\A s \in Sessions :
            /\ pc[s] # "idle" =>
                  /\ user[s] # None
                  /\ \E i \in 1..Len(users) :
                        /\ users[i].id = user[s].id
                        /\ users[i].username = user[s].username
            /\ pc[s] \in {"save_chat", "insert_bot", "commit"} =>
                  frame[s].user_id = user[s].id
            /\ \A i \in 1..Len(pending[s]) :
                  pending[s][i].user_id = user[s].id)
    /\ [][\A s \in Sessions :
            (pc[s] = "commit" /\ pc'[s] = "idle" /\ SaveCommit(s)) =>
                /\ user'[s] = user[s]
                /\ \A i \in (Len(chat_table) + 1)..Len(chat_table') :
                      chat_table'[i].user_id = user[s].id
                /\ \A a \in UserIds :
                      IF a = user[s].id
                      THEN Len(get_chat_history(a)') =
                              Len(get_chat_history(a)) + 2
                      ELSE get_chat_history(a)' = get_chat_history(a)]_vars

\* Only one session has ever acted: it sent as the first account, logged
\* out, logged in as the second account and sent again; each account has
\* the one exchange sent under it.
C14_Witness ==
    \E s, t \in Sessions :
        /\ user[t] = None /\ ui[t] = NoMessage
        /\ Len(saved) = 2
        /\ saved[1].user_id = 1 /\ saved[2].user_id = 2
        /\ user[s] # None /\ user[s].id = 2 /\ Idle(s)
        /\ Len(get_chat_history(1)) = 2
        /\ Len(get_chat_history(2)) = 2

\* a is an initial part of b.
IsPrefix(a, b) == Len(a) <= Len(b) /\ SubSeq(b, 1, Len(a)) = a

\* C15: every step leaves the committed rows of chat_history in place,
\* unchanged, so what get_chat_history returns for an account is an initial
\* part of what it returns after the step; and the rows a commit adds have
\* ids above every earlier row's and are the last two records of their
\* account, also when another session of the account committed before.
C15_StoreIsAppendOnly ==
    /\ [][chat_table' # chat_table =>
            /\ IsPrefix(chat_table, chat_table')
            /\ \A a \in UserIds :
                  IsPrefix(get_chat_history(a), get_chat_history(a)')
            /\ \A i \in (Len(chat_table) + 1)..Len(chat_table') :
                  \A j \in 1..Len(chat_table) :
                      chat_table'[i].id > chat_table[j].id]_vars
    /\ [][\A s \in Sessions, a \in UserIds :
            ( /\ pc[s] = "commit" /\ pc'[s] = "idle"
              /\ a = frame[s].user_id
              /\ SaveCommit(s) ) =>
                LET h == get_chat_history(a)' IN
                /\ Len(h) >= 2
                /\ h[Len(h) - 1] = [message |-> frame[s].msg, is_user |-> 1]
                /\ h[Len(h)] = [message |-> frame[s].resp, is_user |-> 0]
                /\ chat_table'[Len(chat_table')].user_id = a
                /\ saved'[Len(saved')].user_id = a]_vars

\* Two sessions logged in to the same account, each before the other had
\* stored anything, have both sent and both commits are done: the table
\* holds the two pairs one after the other.
C15_Witness ==
    /\ user["s1"] # None /\ user["s1"] = user["s2"]
    /\ Len(saved) = 2 /\ Len(chat_table) = 4
    /\ saved[1].user_id = saved[2].user_id
    /\ \A s \in Sessions :
          /\ Idle(s)
          /\ Len(chat_history[s]) = 1
          /\ "response" \in DOMAIN chat_history[s][1]

\* C16: in every state no two rows of users share an id or a username and
\* every account a sign-up created is there with the id, username and digest
\* it was created with; a step that changes the table adds one row and
\* leaves the others as they were.
C16_AccountsUniqueAndStable ==
    /\ [](/\ Cardinality(Ids(users)) = Len(users)
          /\ Cardinality({users[i].username : i \in 1..Len(users)})
                = Len(users)
          /\ Cardinality(signups) = Len(users)
          /\ \A r \in signups :
                /\ r.id \in 1..Len(users)
                /\ users[r.id] = [id |-> r.id, username |-> r.username,
                                  password_hash |-> hash_password(r.pwd)])
    /\ [][users' # users =>
            /\ Len(users') = Len(users) + 1
            /\ IsPrefix(users, users')]_vars

\* Both usernames are registered, a sign-up with a registered username was
\* refused since, a session is logged in to the second account and an
\* exchange is stored.
C16_Witness ==
    /\ Len(users) = 2
    /\ leaked
    /\ Len(chat_table) = 2
    /\ \E s, t \in Sessions :
          /\ user[s] # None /\ user[s].id = 2
          /\ user[t] = None /\ ui[t] = "Username exists"

\* C17: no stored password_hash is the raw password, and no two accounts
\* store the same password_hash value, whatever their passwords.
C17_CredentialsAreSalted ==
    /\ \A r \in signups : users[r.id].password_hash # r.pwd
    /\ \A i, j \in 1..Len(users) :
          i # j => users[i].password_hash # users[j].password_hash

\* An entry of the shape get_chat_history returns.
IsStoredRecord(h) == "is_user" \in DOMAIN h

\* C18: a session with no user has an empty history and no handler running;
\* a step that takes the user away empties the history, and a step that sets
\* the user replaces the history by the stored history of that user; so the
\* history of a logged-in session is stored records of its own account
\* followed by the exchanges appended since its login.
C18_NoUserNoHistory ==
    /\ [](\A s \in Sessions :
            /\ user[s] = None =>
                  /\ chat_history[s] = <<>>
                  /\ Idle(s)
                  /\ frame[s] = NoFrame
            /\ user[s] # None =>
                  LET loaded == SelectSeq(chat_history[s], IsStoredRecord) IN
                  /\ IsPrefix(loaded, chat_history[s])
                  /\ IsPrefix(loaded, get_chat_history(user[s].id)))
    /\ [][\A s \in Sessions :
            /\ (user[s] # None /\ user'[s] = None) =>
                  chat_history'[s] = <<>>
            /\ (user[s] = None /\ user'[s] # None) =>
                  chat_history'[s] = get_chat_history(user'[s].id)
            /\ (user[s] # None /\ user'[s] # None) =>
                  user'[s] = user[s]]_vars

\* Only one session has ever acted: it sent as the first account, whose
\* exchange is stored, logged out and logged in as the second account with
\* an empty history.
C18_Witness ==
    \E s, t \in Sessions :
        /\ user[t] = None /\ ui[t] = NoMessage
        /\ Len(get_chat_history(1)) = 2
        /\ user[s] # None /\ user[s].id = 2
        /\ chat_history[s] = <<>>
        /\ ui[s] = "Logged in!"

\* C19: a sign-up, accepted or refused, and a refused login leave every
\* session's user, history and chat toggle and the rows of chat_history,
\* committed or not, as they were; a session's user becomes set only by a
\* login whose username and password authenticate_user accepts.
C19_SignUpAndRefusedLoginKeepSession ==
    /\ [][\A s \in Sessions, u \in Usernames, p \in Passwords :
            ( /\ user[s] = None /\ Idle(s)
              /\ \/ SignUp(s, u, p)
                 \/ authenticate_user(u, p) = None /\ Login(s, u, p) ) =>
                /\ user'[s] = None
                /\ UNCHANGED <<user, chat_history, chat_open, chat_table,
                               pending, saved, pc, frame>>]_vars
    /\ [][\A s \in Sessions :
            (user[s] = None /\ user'[s] # None) =>
                /\ ui'[s] = "Logged in!"
                /\ \E u \in Usernames, p \in Passwords :
                      /\ authenticate_user(u, p) # None
                      /\ user'[s] = authenticate_user(u, p)
                      /\ Login(s, u, p)]_vars

\* Only one session has ever acted: it stored an exchange, logged out with
\* the chat open, and then signed up with a registered username, which was
\* refused; it has no user and no history.
C19_Witness ==
    \E s, t \in Sessions :
        /\ user[t] = None /\ ui[t] = NoMessage
        /\ Len(chat_table) = 2
        /\ user[s] = None /\ chat_open[s]
        /\ chat_history[s] = <<>>
        /\ ui[s] = "Username exists"
        /\ leaked

====
